---- MODULE Spec2Model ----
(***************************************************************************)
(* Model of the acquisition layer of fastapi_scraper:                      *)
(*   ProxyManager  (src/proxy_manager.py)  - pool of proxy endpoints       *)
(*   DelayManager  (src/delay_manager.py)  - adaptive request pacing       *)
(*   AmazonScraper (src/scraper.py)        - the fetch: browser strategy,  *)
(*                                           then direct requests          *)
(*   get_product_info (src/main.py)        - the HTTP boundary             *)
(*                                                                         *)
(* Time is the reading of datetime.now() in whole seconds.  Every method   *)
(* call is one atomic step taken at the current reading `now`; the clock   *)
(* is advanced by separate Tick steps.                                     *)
(***************************************************************************)
EXTENDS Integers, Sequences, FiniteSets, TLC

\* ------------------------------------------------------------------ bounds
MaxValidations == 2     \* validate_all_proxies is invoked at most this often
MaxFailures    == 4     \* mark_proxy_failed is not called beyond this count
MaxSuccesses   == 1     \* mark_proxy_success is not called beyond this count
MaxEntries     == 8     \* get_delay is not called with this many timestamps retained
MaxFetches     == 2     \* scrape_amazon_product is called at most this often

\* --------------------------------------------------------------- constants
None            == -1    \* Python's None (last_used, return value)
FailureLimit    == 3     \* "if proxy['failures'] >= 3"
CooldownSeconds == 1800  \* timedelta(minutes=30)
RetentionSeconds == 300  \* timedelta(minutes=5)
FrequencyWindow  == 60   \* timedelta(minutes=1)
ModeHoldSeconds  == 60   \* "total_seconds() < 60"
HighFrequency    == 5    \* "frequency > 5"
LowFrequency     == 2    \* "frequency < 2"

\* PROXY_LIST as read from the environment: distinct addresses, in order.
PROXY_LIST == <<"a", "b">>

\* The urls get_delay is called with.
Urls == {"A", "B"}

\* The clock readings of the pacing specification: the controller is created
\* at 0; one reading just inside and the others outside the mode hold time,
\* the last two at and beyond the retention time of the earlier ones.
DelayReadings == {0, 59, 60, 120, 300, 360}

\* The clock readings of the pool specification: a few seconds after start,
\* and around the end of a cooldown that began then.
PoolReadings == {0, 1, CooldownSeconds, CooldownSeconds + 1}

VARIABLES
    \* ---- ProxyManager
    proxies,           \* list of endpoint records (the dicts of self.proxies)
    working_proxies,   \* list of references (indices into proxies)
    failed_proxies,    \* list of references (indices into proxies)
    proxy_timeouts,    \* dict: address -> cooldown deadline
    \* ---- DelayManager
    request_history,   \* dict: url -> list of timestamps
    current_mode,      \* 'normal' | 'aggressive' | 'conservative'
    mode_history,      \* list of the modes switched to
    last_mode_change,  \* timestamp of the last switch (of creation at first)
    frequency,         \* get_delay's local 'frequency' (0: no call in the last step)
    delay,             \* value returned by get_delay, seconds as <<numerator, denominator>>
    \* ---- the caller's view of the last step
    ret,               \* value returned by the call of the last step
    raised,            \* TRUE iff the call of the last step raised
    \* ---- AmazonScraper, and the coroutines running a fetch on it
    driver,            \* self.driver: TRUE iff a browser driver is held
    pc,                \* per fetch: where its coroutine stands
    attempt,           \* per fetch: loop variable of scrape_with_requests
    proxy_local,       \* per fetch: local 'proxy' of scrape_with_requests
    nested,            \* per fetch: scrape_with_requests runs inside scrape_with_selenium
    answer,            \* per fetch: how the request of the attempt was answered
    browser,           \* per fetch: what the browser strategy met
    result,            \* per fetch: what scrape_product gave its caller
    sent,              \* per fetch: the direct requests sent, in order
    calls,             \* number of completed scrape_amazon_product calls
    session,           \* per fetch: TRUE iff an aiohttp.ClientSession of the fetch is open
    feedback,          \* per fetch: the pool feedback calls of the current attempt
    \* ---- the HTTP boundary
    response,          \* what get_product_info answered last ("none": nothing yet)
    \* ---- clock
    now

poolVars == <<proxies, working_proxies, failed_proxies, proxy_timeouts, ret, raised>>
delayVars == <<request_history, current_mode, mode_history, last_mode_change,
               frequency, delay>>
fetchVars == <<driver, pc, attempt, proxy_local, nested, answer, browser, result,
               sent, calls, session, feedback, response>>
vars == <<proxies, working_proxies, failed_proxies, proxy_timeouts, ret, raised,
          request_history, current_mode, mode_history, last_mode_change,
          frequency, delay, driver, pc, attempt, proxy_local, nested, answer,
          browser, result, sent, calls, session, feedback, response, now>>

Refs == 1..Len(PROXY_LIST)

\* ------------------------------------------------------------ ProxyManager

\* load_proxies: one record per non-empty address.
load_proxies ==
    [i \in Refs |-> [proxy |-> PROXY_LIST[i], last_used |-> None,
                     failures |-> 0, successes |-> 0]]

InitPool ==
    /\ proxies = load_proxies
    /\ working_proxies = <<>>
    /\ failed_proxies = <<>>
    /\ proxy_timeouts = <<>>
    /\ ret = None
    /\ raised = FALSE

\* list.remove(x): drops the first occurrence of x.
RECURSIVE RemoveFirst(_, _)
RemoveFirst(seq, x) ==
    IF seq = <<>> THEN <<>>
    ELSE IF Head(seq) = x THEN Tail(seq)
    ELSE <<Head(seq)>> \o RemoveFirst(Tail(seq), x)

InList(seq, x) == \E k \in 1..Len(seq) : seq[k] = x

\* [x for x in refs (in order) if keep[x]]
RECURSIVE Filter(_, _)
Filter(seq, keep) ==
    IF seq = <<>> THEN <<>>
    ELSE (IF keep[Head(seq)] THEN <<Head(seq)>> ELSE <<>>) \o Filter(Tail(seq), keep)

AllRefs == [i \in Refs |-> i]

\* validate_all_proxies: results[i] is the outcome of validate_proxy on
\* proxies[i] (TRUE iff the probe answered with status 200).
validate_all_proxies(results) ==
    /\ Len(working_proxies) + Len(failed_proxies) < MaxValidations * Len(PROXY_LIST)
    /\ working_proxies' = working_proxies \o Filter(AllRefs, results)
    /\ failed_proxies' = failed_proxies \o Filter(AllRefs, [i \in Refs |-> ~results[i]])
    /\ ret' = None
    /\ raised' = FALSE
    /\ UNCHANGED <<proxies, proxy_timeouts, now, delayVars>>

\* The filter of get_proxy: p is not in timeout.
NoFilter(p) == TRUE
NotInTimeout(p) ==
    \/ proxies[p].proxy \notin DOMAIN proxy_timeouts
    \/ now > proxy_timeouts[proxies[p].proxy]

available_proxies ==
    Filter(working_proxies, [i \in Refs |-> NotInTimeout(i)])

\* First component of the key: successes / (successes + failures + 1), or 1
\* for an endpoint without history; kept as numerator and denominator.
ScoreNum(p) ==
    IF proxies[p].successes + proxies[p].failures > 0 THEN proxies[p].successes ELSE 1
ScoreDenNoSmoothing(p) ==
    IF proxies[p].successes + proxies[p].failures > 0
    THEN proxies[p].successes + proxies[p].failures ELSE 1
ScoreDen(p) ==
    IF proxies[p].successes + proxies[p].failures > 0
    THEN proxies[p].successes + proxies[p].failures + 1 ELSE 1

\* Second component of the key: -(now - last_used) in seconds, 0 if never used.
RecencyUnsigned(p) ==
    IF proxies[p].last_used # None THEN now - proxies[p].last_used ELSE 0
Recency(p) ==
    IF proxies[p].last_used # None THEN -(now - proxies[p].last_used) ELSE 0

\* key(p) > key(q), tuples compared lexicographically.
KeyGreater(p, q) ==
    \/ ScoreNum(p) * ScoreDen(q) > ScoreNum(q) * ScoreDen(p)
    \/ /\ ScoreNum(p) * ScoreDen(q) = ScoreNum(q) * ScoreDen(p)
       /\ Recency(p) > Recency(q)

\* max(seq, key=...): the first element no later element beats.
RECURSIVE MaxFrom(_, _, _)
MaxFrom(seq, k, best) ==
    IF k > Len(seq) THEN best
    ELSE MaxFrom(seq, k + 1, IF KeyGreater(seq[k], best) THEN seq[k] ELSE best)

PyMax(seq) == MaxFrom(seq, 2, seq[1])

\* A later call reads a later clock: consecutive get_proxy calls are separated
\* by the pacing delay and the request itself (scraper.py:256-268).
ClockAdvanced == \A p \in Refs : proxies[p].last_used # None => now > proxies[p].last_used

get_proxy ==
    /\ ClockAdvanced
    /\ IF working_proxies = <<>> \/ available_proxies = <<>>
       THEN /\ ret' = None
            /\ UNCHANGED proxies
       ELSE LET proxy == PyMax(available_proxies) IN
            /\ proxies' = [proxies EXCEPT ![proxy].last_used = now]
            /\ ret' = proxy
    /\ raised' = FALSE
    /\ UNCHANGED <<working_proxies, failed_proxies, proxy_timeouts, now, delayVars>>

\* The callers pass to mark_proxy_failed / mark_proxy_success the dict that an
\* earlier get_proxy call handed out (scraper.py:259, 272-277, 293-294).
HandedOut(proxy) == proxies[proxy].last_used # None

FailedRemovedLate(proxy) ==
    /\ HandedOut(proxy)
    /\ proxies[proxy].failures < MaxFailures
    /\ proxies' = [proxies EXCEPT ![proxy].failures = @ + 1]
    /\ IF proxies[proxy].failures + 1 > FailureLimit
       THEN /\ proxy_timeouts' =
                  [a \in DOMAIN proxy_timeouts \cup {proxies[proxy].proxy} |->
                      IF a = proxies[proxy].proxy THEN now + CooldownSeconds
                      ELSE proxy_timeouts[a]]
            /\ IF InList(working_proxies, proxy)
               THEN /\ working_proxies' = RemoveFirst(working_proxies, proxy)
                    /\ failed_proxies' = Append(failed_proxies, proxy)
                    /\ raised' = FALSE
               ELSE /\ raised' = TRUE
                    /\ UNCHANGED <<working_proxies, failed_proxies>>
       ELSE /\ raised' = FALSE
            /\ UNCHANGED <<proxy_timeouts, working_proxies, failed_proxies>>
    /\ ret' = None
    /\ UNCHANGED <<now, delayVars>>

\* mark_proxy_failed: the increment and the timeout entry are written before
\* list.remove, which raises ValueError when the endpoint is not in the list.
mark_proxy_failed(proxy) ==
    /\ HandedOut(proxy)
    /\ proxies[proxy].failures < MaxFailures
    /\ proxies' = [proxies EXCEPT ![proxy].failures = @ + 1]
    /\ IF proxies[proxy].failures + 1 >= FailureLimit
       THEN /\ proxy_timeouts' =
                  [a \in DOMAIN proxy_timeouts \cup {proxies[proxy].proxy} |->
                      IF a = proxies[proxy].proxy THEN now + CooldownSeconds
                      ELSE proxy_timeouts[a]]
            /\ IF InList(working_proxies, proxy)
               THEN /\ working_proxies' = RemoveFirst(working_proxies, proxy)
                    /\ failed_proxies' = Append(failed_proxies, proxy)
                    /\ raised' = FALSE
               ELSE /\ raised' = TRUE
                    /\ UNCHANGED <<working_proxies, failed_proxies>>
       ELSE /\ raised' = FALSE
            /\ UNCHANGED <<proxy_timeouts, working_proxies, failed_proxies>>
    /\ ret' = None
    /\ UNCHANGED <<now, delayVars>>

\* mark_proxy_success
SuccessKeepsFailures(proxy) ==
    /\ HandedOut(proxy)
    /\ proxies[proxy].successes < MaxSuccesses
    /\ proxies' = [proxies EXCEPT ![proxy].successes = @ + 1]
    /\ ret' = None
    /\ raised' = FALSE
    /\ UNCHANGED <<working_proxies, failed_proxies, proxy_timeouts, now, delayVars>>
mark_proxy_success(proxy) ==
    /\ HandedOut(proxy)
    /\ proxies[proxy].successes < MaxSuccesses
    /\ proxies' = [proxies EXCEPT
                     ![proxy].successes = @ + 1,
                     ![proxy].failures = IF @ > 0 THEN @ - 1 ELSE @]
    /\ ret' = None
    /\ raised' = FALSE
    /\ UNCHANGED <<working_proxies, failed_proxies, proxy_timeouts, now, delayVars>>

\* The clock moves on.
TickPool ==
    /\ \E t \in PoolReadings : t > now /\ now' = t
    /\ ret' = None
    /\ raised' = FALSE
    /\ UNCHANGED <<proxies, working_proxies, failed_proxies, proxy_timeouts, delayVars,
                   fetchVars>>

\* ------------------------------------------------------------ DelayManager

\* No duration: the value of 'delay' while no get_delay call has returned.
NoDelay == <<0, 1>>

InitDelay ==
    /\ request_history = <<>>
    /\ current_mode = "normal"
    /\ mode_history = <<>>
    /\ last_mode_change = now
    /\ frequency = 0
    /\ delay = NoDelay

\* self.base_delays: mode -> (min, max), in seconds.
base_delays(mode) ==
    IF mode = "normal" THEN <<2, 5>>
    ELSE IF mode = "aggressive" THEN <<1, 3>>
    ELSE <<5, 10>>

\* The draws of random.uniform(min_delay, max_delay): the low end of the
\* range (0) and its high end (2); 1 is its middle.
UniformSamples == {0, 2}

\* random.uniform(min_delay, max_delay) for the draw u, in half seconds.
Base(mode, u) ==
    LET min_delay == base_delays(mode)[1]
        max_delay == base_delays(mode)[2]
    IN  2 * min_delay + u * (max_delay - min_delay)

\* random.uniform(-0.5, 0.5), in half seconds.
JitterSamples == {-1, 0, 1}

RECURSIVE Pow(_, _)
Pow(b, n) == IF n = 0 THEN 1 ELSE b * Pow(b, n - 1)

\* 1.5 ** (frequency - 3) as <<numerator, denominator>>, applied when
\* frequency > 3.
BurstFactorDoubling(freq) ==
    IF freq > 3 THEN <<Pow(2, freq - 3), 1>> ELSE <<1, 1>>
BurstFactor(freq) ==
    IF freq > 3 THEN <<Pow(3, freq - 3), Pow(2, freq - 3)>> ELSE <<1, 1>>

\* (base + jitter) * factor, base and jitter in half seconds; the result in
\* seconds as <<numerator, denominator>>.
Delay(base, jitter, freq) ==
    <<(base + jitter) * BurstFactor(freq)[1], 2 * BurstFactor(freq)[2]>>

\* [timestamp for timestamp in seq if timestamp > cutoff]
RECURSIVE After(_, _)
After(seq, cutoff) ==
    IF seq = <<>> THEN <<>>
    ELSE (IF Head(seq) > cutoff THEN <<Head(seq)>> ELSE <<>>) \o After(Tail(seq), cutoff)

KeepEverything(t) == request_history
\* _cleanup_history(t): every list pruned to the timestamps after the cutoff,
\* the urls whose list became empty deleted.
_cleanup_history(t) ==
    LET cutoff == t - RetentionSeconds
        kept == {u \in DOMAIN request_history : After(request_history[u], cutoff) # <<>>}
    IN  [u \in kept |-> After(request_history[u], cutoff)]

\* The history after cleanup and the append of the call's timestamp.
Recorded(url) ==
    LET cleaned == _cleanup_history(now)
    IN  [u \in DOMAIN cleaned \cup {url} |->
            IF u = url
            THEN (IF u \in DOMAIN cleaned THEN cleaned[u] ELSE <<>>) \o <<now>>
            ELSE cleaned[u]]

\* _calculate_frequency over the given history.
_calculate_frequency(history, url) ==
    Len(After(history[url], now - FrequencyWindow))

\* The mode _adjust_mode asks for.
new_mode(freq) ==
    IF freq > HighFrequency THEN "conservative"
    ELSE IF freq < LowFrequency THEN "aggressive"
    ELSE "normal"

AdjustWithoutHold(freq) ==
    IF new_mode(freq) # current_mode
    THEN /\ current_mode' = new_mode(freq)
         /\ mode_history' = Append(mode_history, new_mode(freq))
         /\ last_mode_change' = now
    ELSE UNCHANGED <<current_mode, mode_history, last_mode_change>>
_adjust_mode(freq) ==
    IF now - last_mode_change < ModeHoldSeconds
    THEN UNCHANGED <<current_mode, mode_history, last_mode_change>>
    ELSE IF new_mode(freq) # current_mode
         THEN /\ current_mode' = new_mode(freq)
              /\ mode_history' = Append(mode_history, new_mode(freq))
              /\ last_mode_change' = now
         ELSE UNCHANGED <<current_mode, mode_history, last_mode_change>>

Entries(history) ==
    LET RECURSIVE Sum(_)
        Sum(S) == IF S = {} THEN 0
                  ELSE LET u == CHOOSE x \in S : TRUE
                       IN  Len(history[u]) + Sum(S \ {u})
    IN  Sum(DOMAIN history)

\* get_delay with the two random draws taken from draws, a set of pairs
\* <<draw of the base delay, jitter>>.
get_delay_drawing(url, draws) ==
    /\ Entries(request_history) < MaxEntries
    /\ request_history' = Recorded(url)
    /\ frequency' = _calculate_frequency(request_history', url)
    /\ _adjust_mode(frequency')
    /\ \E draw \in draws : delay' = Delay(Base(current_mode', draw[1]), draw[2], frequency')
    /\ UNCHANGED <<poolVars, now>>

get_delay(url) == get_delay_drawing(url, UniformSamples \X JitterSamples)

TickDelay ==
    /\ \E t \in DelayReadings : t > now /\ now' = t
    /\ frequency' = 0
    /\ delay' = NoDelay
    /\ UNCHANGED <<poolVars, request_history, current_mode, mode_history, last_mode_change,
                   fetchVars>>

\* ----------------------------------------------------------- AmazonScraper

\* The coroutines that run a fetch, and the one url each of them asks for.
Fetches == {1, 2}
Target(f) == IF f = 1 THEN "A" ELSE "B"

\* The callers of scrape_amazon_product: one call after the other.
Callers == {1}

\* The n-th call of scrape_amazon_product arrives n hours after the first.
ArrivalTime(n) == n * 60 * 60

\* What driver.get and the wait for the product title meet: the product page,
\* a page with the word captcha, no title within 10 seconds, a driver error.
Pages == {"product", "captcha", "timeout", "driver_error"}

\* How session.get is answered: 200 with a product page, 200 with a page that
\* _extract_product_data raises on, 200 with a captcha page, another status,
\* an exception (timeout after 30 seconds, connection or proxy error).
Answers == {"ok", "garbled", "captcha", "status", "error"}

\* The pages and answers met while two fetches run on one event loop.
LoopPages == {"product", "timeout"}
LoopAnswers == {"ok", "status", "error"}

\* Whole seconds that pass in the browser strategy and until a request is
\* answered.
SeleniumSeconds(page) == IF page = "timeout" THEN 10 ELSE 5
AnswerSeconds(a) == IF a = "error" THEN 30 ELSE 1

\* The draws of get_delay taken in a fetch: the low end of the range, no
\* jitter.
WaitDraws == {<<0, 0>>}

\* A duration <<numerator, denominator>> rounded up to whole seconds.
Ceil(d) == (d[1] + d[2] - 1) \div d[2]

\* Where a coroutine has handed control back to the event loop; everywhere
\* else it runs synchronous code and no other coroutine of the loop can run.
Parked == {"idle", "initialize", "called", "request", "backoff", "returned"}
OnLoop(f) == \A g \in Fetches \ {f} : pc[g] \in Parked

InitFetch ==
    /\ driver = FALSE
    /\ pc = [f \in Fetches |-> "idle"]
    /\ attempt = [f \in Fetches |-> 0]
    /\ proxy_local = [f \in Fetches |-> None]
    /\ nested = [f \in Fetches |-> FALSE]
    /\ answer = [f \in Fetches |-> "none"]
    /\ browser = [f \in Fetches |-> "none"]
    /\ result = [f \in Fetches |-> "pending"]
    /\ sent = [f \in Fetches |-> <<>>]
    /\ calls = 0
    /\ session = [f \in Fetches |-> FALSE]
    /\ feedback = [f \in Fetches |-> <<>>]
    /\ response = "none"

\* scrape_product hands value to its caller.
Return(f, value) ==
    /\ result' = [result EXCEPT ![f] = value]
    /\ pc' = [pc EXCEPT ![f] = "returned"]
    /\ UNCHANGED <<attempt, nested>>

\* scrape_with_requests ends without content: value is "None" (return None) or
\* "raised".  When it was called from scrape_with_selenium (line 74), selenium's
\* try turns that into None, and scrape_product, given None, calls
\* scrape_with_requests itself (lines 464-467).
Fail(f, value) ==
    IF nested[f]
    THEN /\ nested' = [nested EXCEPT ![f] = FALSE]
         /\ attempt' = [attempt EXCEPT ![f] = 0]
         /\ pc' = [pc EXCEPT ![f] = "wait"]
         /\ UNCHANGED result
    ELSE Return(f, value)

\* scrape_amazon_product, line 478: scraper = AmazonScraper(), with a new
\* ProxyManager and a new DelayManager.
scrape_amazon_product(f) ==
    /\ pc[f] = "idle"
    /\ OnLoop(f)
    /\ calls < MaxFetches
    /\ ArrivalTime(calls) >= now
    /\ now' = ArrivalTime(calls)
    /\ proxies' = load_proxies
    /\ working_proxies' = <<>>
    /\ failed_proxies' = <<>>
    /\ proxy_timeouts' = <<>>
    /\ ret' = None
    /\ raised' = FALSE
    /\ request_history' = <<>>
    /\ current_mode' = "normal"
    /\ mode_history' = <<>>
    /\ last_mode_change' = now'
    /\ frequency' = 0
    /\ delay' = NoDelay
    /\ driver' = FALSE
    /\ pc' = [pc EXCEPT ![f] = "initialize"]
    /\ attempt' = [attempt EXCEPT ![f] = 0]
    /\ proxy_local' = [proxy_local EXCEPT ![f] = None]
    /\ nested' = [nested EXCEPT ![f] = FALSE]
    /\ answer' = [answer EXCEPT ![f] = "none"]
    /\ browser' = [browser EXCEPT ![f] = "none"]
    /\ result' = [result EXCEPT ![f] = "pending"]
    /\ sent' = [sent EXCEPT ![f] = <<>>]
    /\ session' = [session EXCEPT ![f] = FALSE]
    /\ feedback' = [feedback EXCEPT ![f] = <<>>]
    /\ UNCHANGED <<calls, response>>

\* scrape_amazon_product, line 479: await scraper.initialize().
initialize(f) ==
    /\ pc[f] = "initialize"
    /\ OnLoop(f)
    /\ \E results \in [Refs -> BOOLEAN] : validate_all_proxies(results)
    /\ pc' = [pc EXCEPT ![f] = "called"]
    /\ UNCHANGED <<driver, attempt, proxy_local, nested, answer, browser, result, sent, calls,
                   session, feedback, response>>

BrowseNeverSucceeds(f, pages) ==
    /\ pc[f] = "called"
    /\ OnLoop(f)
    /\ \E page \in pages :
          /\ driver' = TRUE
          /\ browser' = [browser EXCEPT ![f] = page]
          /\ now' = now + SeleniumSeconds(page)
          /\ nested' = [nested EXCEPT ![f] = (page = "captcha")]
          /\ attempt' = [attempt EXCEPT ![f] = 0]
          /\ pc' = [pc EXCEPT ![f] = "wait"]
          /\ UNCHANGED result
    /\ UNCHANGED <<poolVars, delayVars, proxy_local, answer, sent, calls, session, feedback,
                   response>>

\* scrape_product up to the end of the browser strategy: setup_driver when no
\* driver is held, which raises outside the try when the browser does not
\* start; then the page.
browse(f, pages) ==
    /\ pc[f] = "called"
    /\ OnLoop(f)
    /\ \E started \in (IF driver THEN {TRUE} ELSE BOOLEAN) :
          IF ~started
          THEN /\ browser' = [browser EXCEPT ![f] = "no_browser"]
               /\ Return(f, "raised")
               /\ UNCHANGED <<driver, now>>
          ELSE \E page \in pages :
                  /\ driver' = TRUE
                  /\ browser' = [browser EXCEPT ![f] = page]
                  /\ now' = now + SeleniumSeconds(page)
                  /\ IF page = "product"
                     THEN Return(f, "content")
                     ELSE /\ nested' = [nested EXCEPT ![f] = (page = "captcha")]
                          /\ attempt' = [attempt EXCEPT ![f] = 0]
                          /\ pc' = [pc EXCEPT ![f] = "wait"]
                          /\ UNCHANGED result
    /\ UNCHANGED <<poolVars, delayVars, proxy_local, answer, sent, calls, session, feedback,
                   response>>

scrape_with_selenium(f) == browse(f, Pages)

\* scrape_with_requests, line 256, first half of DelayManager.wait: get_delay.
wait(f) ==
    /\ pc[f] = "wait"
    /\ OnLoop(f)
    /\ get_delay_drawing(Target(f), WaitDraws)
    /\ pc' = [pc EXCEPT ![f] = "sleeping"]
    /\ feedback' = [feedback EXCEPT ![f] = <<>>]
    /\ UNCHANGED <<driver, attempt, proxy_local, nested, answer, browser, result, sent, calls,
                   session, response>>

SleepSkipped(f) ==
    /\ pc[f] = "sleeping"
    /\ OnLoop(f)
    /\ pc' = [pc EXCEPT ![f] = "choose_proxy"]
    /\ UNCHANGED <<poolVars, delayVars, now, driver, attempt, proxy_local, nested, answer,
                   browser, result, sent, calls, session, feedback, response>>

\* Second half of DelayManager.wait: time.sleep(delay) returns.
sleeping(f) ==
    /\ pc[f] = "sleeping"
    /\ OnLoop(f)
    /\ now' = now + Ceil(delay)
    /\ pc' = [pc EXCEPT ![f] = "choose_proxy"]
    /\ UNCHANGED <<poolVars, delayVars, driver, attempt, proxy_local, nested, answer,
                   browser, result, sent, calls, session, feedback, response>>

\* Lines 259-268 and 281-282: get_proxy; the session is opened ("async with
\* aiohttp.ClientSession") and the request is on its way.
choose_proxy(f) ==
    /\ pc[f] = "choose_proxy"
    /\ OnLoop(f)
    /\ get_proxy
    /\ proxy_local' = [proxy_local EXCEPT ![f] = ret']
    /\ session' = [session EXCEPT ![f] = TRUE]
    /\ pc' = [pc EXCEPT ![f] = "request"]
    /\ UNCHANGED <<driver, attempt, nested, answer, browser, result, sent, calls, feedback,
                   response>>

\* Lines 268 and 282: the request is answered, or an exception stands for the
\* answer.
respond_with(f, answers) ==
    /\ pc[f] = "request"
    /\ OnLoop(f)
    /\ \E a \in answers :
          /\ answer' = [answer EXCEPT ![f] = a]
          /\ sent' = [sent EXCEPT ![f] = Append(@, [via |-> proxy_local[f], answer |-> a])]
          /\ now' = now + AnswerSeconds(a)
    /\ pc' = [pc EXCEPT ![f] = "response"]
    /\ UNCHANGED <<poolVars, delayVars, driver, attempt, proxy_local, nested, browser,
                   result, calls, session, feedback, response>>

respond(f) == respond_with(f, Answers)

\* One call of mark_proxy_success or mark_proxy_failed, as the attempt made it.
Called(method, endpoint) == [call |-> method, endpoint |-> endpoint]

\* Lines 269-286: the answer is looked at; the "async with" blocks are left,
\* by return, by falling through or by an exception, and the session is
\* closed.
handle_response(f) ==
    /\ pc[f] = "response"
    /\ OnLoop(f)
    /\ IF proxy_local[f] # None /\ answer[f] \in {"ok", "garbled"}
       THEN /\ mark_proxy_success(proxy_local[f])
            /\ feedback' = [feedback EXCEPT
                               ![f] = Append(@, Called("mark_proxy_success", proxy_local[f]))]
       ELSE IF proxy_local[f] # None /\ answer[f] \in {"captcha", "status"}
       THEN /\ mark_proxy_failed(proxy_local[f])
            /\ feedback' = [feedback EXCEPT
                               ![f] = Append(@, Called("mark_proxy_failed", proxy_local[f]))]
       ELSE UNCHANGED <<poolVars, delayVars, now, feedback>>
    /\ session' = [session EXCEPT ![f] = FALSE]
    /\ IF answer[f] = "ok"
       THEN Return(f, "content")
       ELSE /\ pc' = [pc EXCEPT ![f] =
                        IF answer[f] \in {"garbled", "error"} \/ raised'
                        THEN "except" ELSE "backoff"]
            /\ UNCHANGED <<attempt, nested, result>>
    /\ UNCHANGED <<driver, proxy_local, answer, browser, sent, calls, response>>

ExceptWithoutFeedback(f) ==
    /\ pc[f] = "except"
    /\ OnLoop(f)
    /\ pc' = [pc EXCEPT ![f] = "backoff"]
    /\ UNCHANGED <<poolVars, delayVars, now, attempt, nested, result>>
    /\ UNCHANGED <<driver, proxy_local, answer, browser, sent, calls, session, feedback,
                   response>>

\* Lines 291-294: the except clause; an exception of mark_proxy_failed leaves
\* scrape_with_requests.
handle_exception(f) ==
    /\ pc[f] = "except"
    /\ OnLoop(f)
    /\ IF proxy_local[f] # None
       THEN /\ mark_proxy_failed(proxy_local[f])
            /\ feedback' = [feedback EXCEPT
                               ![f] = Append(@, Called("mark_proxy_failed", proxy_local[f]))]
       ELSE UNCHANGED <<poolVars, delayVars, now, feedback>>
    /\ IF raised'
       THEN Fail(f, "raised")
       ELSE /\ pc' = [pc EXCEPT ![f] = "backoff"]
            /\ UNCHANGED <<attempt, nested, result>>
    /\ UNCHANGED <<driver, proxy_local, answer, browser, sent, calls, session, response>>

\* Lines 289 and 295: asyncio.sleep(2 ** attempt) is over; the next attempt,
\* or return None after the third.
backoff(f) ==
    /\ pc[f] = "backoff"
    /\ OnLoop(f)
    /\ now' = now + Pow(2, attempt[f])
    /\ IF attempt[f] + 1 < 3
       THEN /\ attempt' = [attempt EXCEPT ![f] = @ + 1]
            /\ pc' = [pc EXCEPT ![f] = "wait"]
            /\ UNCHANGED <<nested, result>>
       ELSE Fail(f, "None")
    /\ UNCHANGED <<poolVars, delayVars, driver, proxy_local, answer, browser, sent, calls,
                   session, feedback, response>>

\* The task that runs scrape_amazon_product is cancelled while it is suspended
\* at an await (validate_all_proxies, session.get / response.text,
\* asyncio.sleep).  CancelledError is not an Exception: no except clause of the
\* scraper catches it, the "async with" blocks close the session on the way
\* out, and the finally of scrape_amazon_product runs cleanup, unless the task
\* was still in initialize (line 479, before the try).
cancel(f) ==
    /\ pc[f] \in {"initialize", "request", "backoff"}
    /\ OnLoop(f)
    /\ session' = [session EXCEPT ![f] = FALSE]
    /\ result' = [result EXCEPT ![f] = "cancelled"]
    /\ IF pc[f] = "initialize"
       THEN /\ pc' = [pc EXCEPT ![f] = "idle"]
            /\ calls' = calls + 1
       ELSE /\ pc' = [pc EXCEPT ![f] = "returned"]
            /\ UNCHANGED calls
    /\ UNCHANGED <<poolVars, delayVars, now, driver, attempt, proxy_local, nested, answer,
                   browser, sent, feedback, response>>

CleanupKeepsDriver(f) ==
    /\ pc[f] = "returned"
    /\ OnLoop(f)
    /\ pc' = [pc EXCEPT ![f] = "idle"]
    /\ calls' = calls + 1
    /\ UNCHANGED <<poolVars, delayVars, now, driver, attempt, proxy_local, nested, answer,
                   browser, result, sent, session, feedback, response>>

\* scrape_amazon_product, lines 482-483: finally scraper.cleanup(); the value
\* or the exception goes to the caller.
cleanup(f) ==
    /\ pc[f] = "returned"
    /\ OnLoop(f)
    /\ driver' = FALSE
    /\ pc' = [pc EXCEPT ![f] = "idle"]
    /\ calls' = calls + 1
    /\ UNCHANGED <<poolVars, delayVars, now, attempt, proxy_local, nested, answer,
                   browser, result, sent, session, feedback, response>>

\* main.py:59: scrape_amazon_product(asin) is called and not awaited, so
\* product_data is the coroutine object; its body is never run.
product_data == "coroutine"

\* main.py:40-64: verify_token answers 401 to a wrong bearer token; then
\* get_product_info answers 404 when product_data is None and returns
\* product_data otherwise, which the framework validates against
\* ProductResponse: a dict of the scraper becomes the record, anything else an
\* internal server error.  Requests arrive while no fetch is running.
get_product_info ==
    /\ \A f \in Callers : pc[f] = "idle"
    /\ \E credentials_ok \in BOOLEAN :
          response' = IF ~credentials_ok THEN "401"
                      ELSE IF product_data = "None" THEN "404"
                      ELSE IF product_data = "content" THEN "record"
                      ELSE "500"
    /\ UNCHANGED <<poolVars, delayVars, now, driver, pc, attempt, proxy_local, nested,
                   answer, browser, result, sent, calls, session, feedback>>

Init ==
    /\ now = 0
    /\ InitPool
    /\ InitDelay
    /\ InitFetch

ValidateAll ==
    /\ \E results \in [Refs -> BOOLEAN] : validate_all_proxies(results)
    /\ UNCHANGED fetchVars
GetProxy == get_proxy /\ UNCHANGED fetchVars
MarkFailed ==
    /\ \E p \in Refs : mark_proxy_failed(p)
    /\ UNCHANGED fetchVars
MarkSuccess ==
    /\ \E p \in Refs : mark_proxy_success(p)
    /\ UNCHANGED fetchVars

\* AmazonScraper.initialize on a scraper no fetch has been started on.
Initialize ==
    /\ working_proxies = <<>>
    /\ failed_proxies = <<>>
    /\ \A f \in Fetches : pc[f] = "idle" /\ result[f] = "pending"
    /\ \E results \in [Refs -> BOOLEAN] : validate_all_proxies(results)
    /\ UNCHANGED fetchVars

\* scrape_product is called on the initialized scraper: the coroutine is
\* ready to run.
scrape_product(f) ==
    /\ pc[f] = "idle"
    /\ result[f] = "pending"
    /\ working_proxies # <<>> \/ failed_proxies # <<>>
    /\ pc' = [pc EXCEPT ![f] = "called"]
    /\ UNCHANGED <<poolVars, delayVars, now, driver, attempt, proxy_local, nested, answer,
                   browser, result, sent, calls, session, feedback, response>>

NextPool ==
    \/ ValidateAll
    \/ GetProxy
    \/ MarkFailed
    \/ MarkSuccess
    \/ TickPool

SpecPool == Init /\ [][NextPool]_vars

GetDelay ==
    /\ \E url \in Urls : get_delay(url)
    /\ UNCHANGED fetchVars

NextDelay ==
    \/ GetDelay
    \/ TickDelay

SpecDelay == Init /\ [][NextDelay]_vars

NextFetch ==
    \/ \E f \in Callers : scrape_amazon_product(f)
    \/ \E f \in Callers : initialize(f)
    \/ \E f \in Callers : scrape_with_selenium(f)
    \/ \E f \in Callers : wait(f)
    \/ \E f \in Callers : sleeping(f)
    \/ \E f \in Callers : choose_proxy(f)
    \/ \E f \in Callers : respond(f)
    \/ \E f \in Callers : handle_response(f)
    \/ \E f \in Callers : handle_exception(f)
    \/ \E f \in Callers : backoff(f)
    \/ \E f \in Callers : cleanup(f)

SpecFetch == Init /\ [][NextFetch]_vars

\* The service as deployed: HTTP requests arrive, and the task of a fetch may
\* be cancelled while it is suspended.
NextService ==
    \/ \E f \in Callers : scrape_amazon_product(f)
    \/ \E f \in Callers : initialize(f)
    \/ \E f \in Callers : scrape_with_selenium(f)
    \/ \E f \in Callers : wait(f)
    \/ \E f \in Callers : sleeping(f)
    \/ \E f \in Callers : choose_proxy(f)
    \/ \E f \in Callers : respond(f)
    \/ \E f \in Callers : handle_response(f)
    \/ \E f \in Callers : handle_exception(f)
    \/ \E f \in Callers : backoff(f)
    \/ \E f \in Callers : cancel(f)
    \/ \E f \in Callers : cleanup(f)
    \/ get_product_info

SpecService == Init /\ [][NextService]_vars

\* Two coroutines of one event loop fetch on one AmazonScraper, which was
\* initialized before.
NextLoop ==
    \/ Initialize
    \/ \E f \in Fetches : scrape_product(f)
    \/ \E f \in Fetches : browse(f, LoopPages)
    \/ \E f \in Fetches : wait(f)
    \/ \E f \in Fetches : sleeping(f)
    \/ \E f \in Fetches : choose_proxy(f)
    \/ \E f \in Fetches : respond_with(f, LoopAnswers)
    \/ \E f \in Fetches : handle_response(f)
    \/ \E f \in Fetches : handle_exception(f)
    \/ \E f \in Fetches : backoff(f)

SpecLoop == Init /\ [][NextLoop]_vars

\* ================================================================ claims
\* ------------------------------------------------------ pool: vocabulary

Address(p) == proxies[p].proxy
HasDeadline(p) == Address(p) \in DOMAIN proxy_timeouts
Deadline(p) == proxy_timeouts[Address(p)]
Validated(p) == \E k \in 1..Len(working_proxies) : working_proxies[k] = p

\* Cooling down: a deadline that has not elapsed yet.
CoolingDown(p) == HasDeadline(p) /\ ~(now > Deadline(p))
Eligible == {p \in Refs : Validated(p) /\ ~CoolingDown(p)}

Untried(p) == proxies[p].successes = 0 /\ proxies[p].failures = 0
NeverUsed(p) == proxies[p].last_used = None

\* score(p) >= score(q) for score = successes / (successes + failures + 1),
\* an endpoint without history scoring 1.
ScoreAtLeast(p, q) ==
    LET n(x) == IF Untried(x) THEN 1 ELSE proxies[x].successes
        d(x) == IF Untried(x) THEN 1 ELSE proxies[x].successes + proxies[x].failures + 1
    IN  n(p) * d(q) >= n(q) * d(p)

SameScore(p, q) == ScoreAtLeast(p, q) /\ ScoreAtLeast(q, p)

\* A step in which get_proxy handed out an endpoint.
Selected == ret' \in Refs

\* C1: get_proxy never returns an endpoint whose cooldown deadline
\* (proxy_timeouts entry) is still in the future.
C1_NoCoolingEndpointReturned ==
    ret \in Refs => ~(HasDeadline(ret) /\ Deadline(ret) > now)

\* C1 witness: an endpoint was returned while another endpoint of the
\* validated list was cooling down.
C1_Witness ==
    /\ ret \in Refs
    /\ \E q \in Refs : Validated(q) /\ HasDeadline(q) /\ Deadline(q) > now

\* C2 (as claimed): the mark_proxy_failed call on a validated endpoint that
\* brings failures to 3 moves it out of the validated subset, sets the deadline
\* to now + 30 minutes and leaves failures at 3; a call that brings failures to
\* 1 or 2 leaves the endpoint validated and without cooldown.
C2_ThirdFailureCoolsDown ==
    [][\A p \in Refs :
         (Validated(p) /\ proxies'[p].failures = proxies[p].failures + 1) =>
            /\ proxies'[p].failures = 3 =>
                  /\ \A k \in 1..Len(working_proxies') : working_proxies'[k] # p
                  /\ Address(p) \in DOMAIN proxy_timeouts'
                  /\ proxy_timeouts'[Address(p)] = now + 30 * 60
            /\ proxies'[p].failures \in {1, 2} =>
                  /\ \E k \in 1..Len(working_proxies') : working_proxies'[k] = p
                  /\ Address(p) \notin DOMAIN proxy_timeouts'
    ]_vars

\* C3 (as claimed): an endpoint that was handed out, then put into cooldown,
\* is returned again by a get_proxy call made after its deadline when no other
\* endpoint is eligible.
C3_EligibleAgainAfterCooldown ==
    [][\A e \in Refs :
         ( /\ get_proxy
           /\ ~NeverUsed(e) /\ HasDeadline(e) /\ now > Deadline(e)
           /\ \A q \in Refs \ {e} : q \notin Eligible )
         => ret' = e
    ]_vars

\* C4: mark_proxy_success increments successes by exactly 1 and never
\* increases failures: failures decreases by exactly 1 when it was > 0 and
\* stays 0 otherwise; both counters are non-negative in every reachable state.
C4_SuccessForgivesOneFailure ==
    /\ [](\A p \in Refs : proxies[p].successes >= 0 /\ proxies[p].failures >= 0)
    /\ [][\A p \in Refs :
            proxies'[p].successes # proxies[p].successes =>
               /\ proxies'[p].successes = proxies[p].successes + 1
               /\ proxies'[p].failures <= proxies[p].failures
               /\ proxies[p].failures > 0 => proxies'[p].failures = proxies[p].failures - 1
               /\ proxies[p].failures = 0 => proxies'[p].failures = 0
       ]_vars

\* C4 witness: an endpoint that reached the failure limit (it has a deadline)
\* was reported successful and its failures went down.
C4_Witness ==
    \E p \in Refs :
        /\ proxies[p].successes > 0
        /\ HasDeadline(p)
        /\ proxies[p].failures = FailureLimit - 1

\* C5 (as claimed): no call of the pool raises.
C5_PoolNeverThrows == raised = FALSE

\* C6: get_proxy returns None iff no validated endpoint is out of cooldown;
\* otherwise it returns an eligible endpoint of maximal score (an untried
\* endpoint whenever one is eligible), sets its last_used to now and changes
\* nothing else.
C6_MaximalScoreSelected ==
    [][get_proxy =>
         /\ Eligible = {} => (ret' = None /\ proxies' = proxies)
         /\ Eligible # {} =>
               /\ ret' \in Eligible
               /\ \A q \in Eligible : ScoreAtLeast(ret', q)
               /\ (\E q \in Eligible : Untried(q)) => Untried(ret')
               /\ proxies' = [proxies EXCEPT ![ret'].last_used = now]
    ]_vars

\* C6 witness: an endpoint with history was returned although another
\* validated endpoint, of lower score, stood earlier in the list.
C6_Witness ==
    /\ ret \in Refs
    /\ ~Untried(ret)
    /\ \E q \in Eligible :
          /\ ~ScoreAtLeast(q, ret)
          /\ working_proxies[1] = q

\* C7 (as claimed): among the eligible endpoints of maximal score get_proxy
\* returns the least recently used: a never-used one if there is one, else
\* the one with the oldest last_used.
C7_TieBrokenByLeastRecentlyUsed ==
    [][(get_proxy /\ Selected) =>
         \A q \in Eligible :
            SameScore(q, ret') =>
               /\ NeverUsed(q) => NeverUsed(ret')
               /\ (~NeverUsed(q) /\ ~NeverUsed(ret')) =>
                     proxies[ret'].last_used <= proxies[q].last_used
    ]_vars

History(u) == IF u \in DOMAIN request_history THEN request_history[u] ELSE <<>>

\* The number of requests of u in the minute before now.
RequestsLastMinute(u) ==
    Cardinality({k \in 1..Len(History(u)) : History(u)[k] > now - 60})

\* u has been requested at most once per minute, for 90 seconds or more, and
\* still is (its latest request is at most a minute old).
SlowSustained(u) ==
    /\ History(u) # <<>>
    /\ \A k \in 2..Len(History(u)) : History(u)[k] - History(u)[k - 1] >= 60
    /\ now - History(u)[1] >= 90
    /\ now - History(u)[Len(History(u))] <= 60

\* u is being requested more than 5 times per minute.
FastSustained(u) == RequestsLastMinute(u) > 5

\* C9: any two consecutive mode transitions are at least 60 seconds apart, and
\* no transition happens in the first 60 seconds after creation (at time 0):
\* last_mode_change is the time of creation until the first transition and the
\* time of the latest transition afterwards, and a transition needs 60 seconds
\* since then.
C9_ModeHeldFor60Seconds ==
    [][ /\ current_mode' # current_mode =>
              /\ now' >= 60
              /\ now' - last_mode_change >= 60
              /\ last_mode_change' = now'
        /\ current_mode' = current_mode => last_mode_change' = last_mode_change
        /\ Len(mode_history') # Len(mode_history) => current_mode' # current_mode
    ]_vars

\* C9 witness: the mode has changed twice, the second time exactly 60 seconds
\* after the first.
C9_Witness ==
    /\ Len(mode_history) = 2
    /\ last_mode_change = 120
    /\ now = 120

\* C10 (as claimed), in the form a finite run refutes: once the mode is
\* 'aggressive' for a url requested at most once per minute for 90 seconds or
\* more, it stays 'aggressive' while that rate lasts; once it is
\* 'conservative' for a url requested more than 5 times per minute, it stays
\* 'conservative' while that rate lasts.
C10_ModeConverges ==
    [][\A u \in Urls :
         /\ (SlowSustained(u) /\ current_mode = "aggressive" /\ SlowSustained(u)')
               => current_mode' = "aggressive"
         /\ (FastSustained(u) /\ current_mode = "conservative" /\ FastSustained(u)')
               => current_mode' = "conservative"
    ]_vars

\* Durations <<numerator, denominator>> with positive denominators.
Positive(d) == d[1] > 0
AtMost(d, e) == d[1] * e[2] <= e[1] * d[2]

\* The burst exponent k of a call with frequency = 3 + k.
BurstExponent == frequency - 3

\* C11 (as claimed): get_delay returns a strictly positive duration, and with
\* frequency = 3 + k (k >= 0) a duration of at most 10 * 1.5^k seconds.
C11_DelayAtMostTenTimesBurst ==
    frequency > 0 =>
       /\ Positive(delay)
       /\ frequency >= 3 =>
             AtMost(delay, <<10 * Pow(3, BurstExponent), Pow(2, BurstExponent)>>)

\* C11 (amended): get_delay returns a strictly positive duration, and with
\* frequency = 3 + k (k >= 0) a duration of at most 10.5 * 1.5^k seconds: the
\* largest base delay, 10 seconds, plus the largest jitter, 0.5 seconds.
C11_DelayAtMostMaxPlusJitter ==
    frequency > 0 =>
       /\ Positive(delay)
       /\ frequency >= 3 =>
             AtMost(delay, <<21 * Pow(3, BurstExponent), 2 * Pow(2, BurstExponent)>>)

\* C11 witness: a call with frequency 6 in mode 'conservative' returned
\* exactly 10.5 * 1.5^3 seconds.
C11_Witness ==
    /\ frequency = 6
    /\ current_mode = "conservative"
    /\ AtMost(<<21 * Pow(3, 3), 2 * Pow(2, 3)>>, delay)

\* C12 (as claimed): a get_delay call for one url leaves the mode and the
\* mode-change timestamp in force for every other url with a history
\* unchanged.
C12_ModeIsPerTarget ==
    [][\A a \in Urls, b \in Urls :
         (a # b /\ get_delay(a) /\ b \in DOMAIN request_history) =>
            /\ current_mode' = current_mode
            /\ last_mode_change' = last_mode_change
    ]_vars

\* C13: after a get_delay call no url's history holds a timestamp older than
\* 5 minutes before the call, the called url's history ends with the call's
\* timestamp and holds nothing newer, and the frequency used is the number of
\* that url's entries less than 60 seconds old, the new one included.
C13_HistoryPrunedAndCounted ==
    [][\A u \in Urls :
         get_delay(u) =>
            /\ \A v \in DOMAIN request_history' :
                  \A k \in 1..Len(request_history'[v]) :
                     now - request_history'[v][k] <= 5 * 60
            /\ u \in DOMAIN request_history'
            /\ request_history'[u][Len(request_history'[u])] = now
            /\ \A k \in 1..Len(request_history'[u]) : request_history'[u][k] <= now
            /\ frequency' = Cardinality({k \in 1..Len(request_history'[u]) :
                                            now - request_history'[u][k] < 60})
            /\ frequency' >= 1
    ]_vars

\* C13 witness: a call for "A" at 360 found entries of 120 and 300 and counted
\* only itself; the entry of the call that switched the mode at 60 is gone.
C13_Witness ==
    /\ now = 360
    /\ frequency = 1
    /\ History("A") = <<120, 300, 360>>
    /\ "B" \notin DOMAIN request_history
    /\ last_mode_change = 60

\* ---------------------------------------------------- fetch: vocabulary

\* In a fetch made through scrape_amazon_product the pool was built and
\* validated once, so the endpoints that passed validation are those in
\* working_proxies and those a third failure has moved out of it.
ValidatedOnce(p) == Validated(p) \/ HasDeadline(p)

\* The endpoint and the answer of the k-th direct request of f.
Via(f, k) == sent[f][k].via
Answer(f, k) == sent[f][k].answer

\* The coroutine is inside scrape_with_requests.
InDirectStrategy(f) ==
    pc[f] \in {"wait", "sleeping", "choose_proxy", "request", "response", "except", "backoff"}

\* C14 (as claimed): a fetch sends at most 3 direct requests, and none after
\* one that succeeded.
C14_AtMostThreeAttempts ==
    \A f \in Fetches :
       /\ Len(sent[f]) <= 3
       /\ \A k \in 1..(Len(sent[f]) - 1) : Answer(f, k) # "ok"

\* C15: a fetch whose browser strategy met a captcha page and whose direct
\* requests all ended in an exception (timeout) returns None, and when exactly
\* one endpoint had passed validation that endpoint, at 0 failures in the new
\* pool, ends with failures = 3.
C15_ExhaustedAfterBlockAndTimeouts ==
    \A f \in Fetches :
       ( /\ pc[f] = "returned"
         /\ browser[f] = "captcha"
         /\ \A k \in 1..Len(sent[f]) : Answer(f, k) = "error" )
       => /\ result[f] = "None"
          /\ \A e \in Refs :
                {p \in Refs : ValidatedOnce(p)} = {e} => proxies[e].failures = 3

\* C15 witness: such a fetch has returned; its first three requests went
\* through the one validated endpoint, the next three without a proxy.
C15_Witness ==
    \E f \in Fetches, e \in Refs :
       /\ pc[f] = "returned"
       /\ browser[f] = "captcha"
       /\ Len(sent[f]) = 6
       /\ \A k \in 1..6 : Answer(f, k) = "error"
       /\ \A k \in 1..3 : Via(f, k) = e /\ Via(f, k + 3) = None
       /\ {p \in Refs : ValidatedOnce(p)} = {e}
       /\ result[f] = "None"

\* A fetch that sent two requests through endpoints, the first answered with a
\* captcha page and the second with the product page, has returned.
BlockedThenServed(f) ==
    /\ pc[f] = "returned"
    /\ Len(sent[f]) = 2
    /\ Answer(f, 1) = "captcha" /\ Answer(f, 2) = "ok"
    /\ Via(f, 1) # None /\ Via(f, 2) # None

\* C16 (as claimed): after such a fetch the endpoint of attempt 1 shows 1
\* failure and no success and the endpoint of attempt 2 shows 1 success,
\* whether the two endpoints differ or not.
C16_FailureStaysOnFirstEndpoint ==
    \A f \in Fetches :
       BlockedThenServed(f) =>
          /\ proxies[Via(f, 1)].failures = 1
          /\ proxies[Via(f, 1)].successes = 0
          /\ proxies[Via(f, 2)].successes = 1

\* C16 (amended): after such a fetch, when the two endpoints differ, the
\* endpoint of attempt 1 shows 1 failure and no success and the endpoint of
\* attempt 2 shows 1 success and no failure; when they are the same endpoint,
\* it shows 1 success and 0 failures.
C16_FeedbackPerEndpoint ==
    \A f \in Fetches :
       BlockedThenServed(f) =>
          /\ Via(f, 1) # Via(f, 2) =>
                /\ proxies[Via(f, 1)].failures = 1
                /\ proxies[Via(f, 1)].successes = 0
                /\ proxies[Via(f, 2)].failures = 0
                /\ proxies[Via(f, 2)].successes = 1
          /\ Via(f, 1) = Via(f, 2) =>
                /\ proxies[Via(f, 1)].failures = 0
                /\ proxies[Via(f, 1)].successes = 1

\* C16 witness: such a fetch has returned, its two requests sent through
\* different endpoints.
C16_Witness ==
    \E f \in Fetches : BlockedThenServed(f) /\ Via(f, 1) # Via(f, 2)

\* C17: the browser strategy runs at most once per fetch and before any
\* direct request; when it gets the product page, the fetch returns that
\* content without a direct request, the pool counters and the pacing history
\* untouched; direct requests are made only after the browser strategy failed.
C17_BrowserFirstThenDirect ==
    /\ [](\A f \in Callers :
            /\ browser[f] = "product" =>
                  /\ result[f] = "content"
                  /\ sent[f] = <<>>
                  /\ proxies = load_proxies
                  /\ proxy_timeouts = <<>>
                  /\ request_history = <<>>
            /\ (InDirectStrategy(f) \/ sent[f] # <<>>) =>
                  browser[f] \in {"captcha", "timeout", "driver_error"})
    /\ [][\A f \in Callers :
            browser'[f] # browser[f] => (browser[f] = "none" \/ browser'[f] = "none")
       ]_vars

\* C17 witness: the browser strategy got the product page while an endpoint
\* was validated, and the fetch has returned.
C17_Witness ==
    \E f \in Callers :
       /\ browser[f] = "product"
       /\ pc[f] = "returned"
       /\ working_proxies # <<>>

\* C18 (as claimed): scrape_product never raises.
C18_OnlyExhaustionSurfaces ==
    \A f \in Fetches : result[f] # "raised"

\* C20 (as claimed): a later call of scrape_amazon_product keeps the pool and
\* pacing state the earlier fetches left, and does not validate the endpoints
\* again.
C20_FetchesShareManagers ==
    [][\A f \in Fetches :
         (calls > 0 /\ (scrape_amazon_product(f) \/ initialize(f))) =>
            UNCHANGED <<proxies, working_proxies, failed_proxies, proxy_timeouts,
                        request_history, current_mode, last_mode_change>>
    ]_vars

\* A step of the coroutine g.
StepOf(g) ==
    \/ browse(g, LoopPages)
    \/ wait(g)
    \/ sleeping(g)
    \/ choose_proxy(g)
    \/ respond_with(g, LoopAnswers)
    \/ handle_response(g)
    \/ handle_exception(g)
    \/ backoff(g)

\* g has been started, has not returned, and waits for the event loop to
\* run it.
Ready(g) == pc[g] \in {"called", "request", "backoff"}

\* C19 (as claimed): while one fetch waits out its pacing delay or its retry
\* backoff, another fetch of the same event loop that is ready to run can take
\* a step.
C19_WaitsDoNotBlock ==
    \A f \in Fetches, g \in Fetches :
       (f # g /\ pc[f] \in {"sleeping", "backoff"} /\ Ready(g)) => ENABLED StepOf(g)

\* ------------------------------------------------------ the HTTP boundary

\* C21: get_product_info answers an authorized request with 404 when the
\* fetch it ran ended with all strategies exhausted, and with the product
\* record when the fetch gave content; it gives no other answer.
C21_ExhaustedIsNotFound ==
    \/ response \in {"none", "401"}
    \/ \E f \in Callers :
          \/ result[f] = "None" /\ response = "404"
          \/ result[f] = "content" /\ response = "record"

\* C22: resources are released on every exit path.  When a call of
\* scrape_amazon_product has ended (content, exhaustion, exception or
\* cancellation) no browser driver is held and no session of the fetch is
\* open; and a session of one attempt is closed before the fetch backs off,
\* starts its next attempt or returns.
C22_ResourcesReleased ==
    \A f \in Callers :
       /\ (pc[f] = "idle" /\ result[f] # "pending") => (~driver /\ ~session[f])
       /\ pc[f] \in {"except", "backoff", "wait", "sleeping", "choose_proxy", "returned"}
             => ~session[f]

\* C22 witness: a fetch whose browser was started was cancelled while the
\* request of its second attempt was under way, and the call has ended.
C22_Witness ==
    \E f \in Callers :
       /\ pc[f] = "idle"
       /\ result[f] = "cancelled"
       /\ browser[f] \in {"captcha", "timeout", "driver_error"}
       /\ attempt[f] = 1
       /\ Len(sent[f]) = 1
       /\ ~driver
       /\ ~session[f]

\* ------------------------------------------------- fetch: feedback, pacing

\* The attempt of fetch f has been answered and its feedback has been given.
AttemptOver(f) == pc[f] \in {"backoff", "returned"} /\ answer[f] # "none" /\ sent[f] # <<>>

\* C23: a direct-request attempt that used a proxy gives the pool exactly one
\* feedback call, for the endpoint it selected: mark_proxy_success iff the
\* answer had status 200 and no block marker, mark_proxy_failed otherwise.  An
\* attempt without a proxy gives none and leaves the pool as it was.
C23_OneFeedbackPerAttempt ==
    /\ [](\A f \in Callers :
            /\ Len(feedback[f]) <= 1
            /\ (AttemptOver(f) /\ proxy_local[f] # None) =>
                  feedback[f] =
                     << Called(IF answer[f] \in {"ok", "garbled"}
                               THEN "mark_proxy_success" ELSE "mark_proxy_failed",
                               proxy_local[f]) >>
            /\ (AttemptOver(f) /\ proxy_local[f] = None) => feedback[f] = <<>>)
    /\ [][\A f \in Callers :
            (pc[f] \in {"response", "except"} /\ proxy_local[f] = None) =>
               UNCHANGED <<proxies, working_proxies, failed_proxies, proxy_timeouts>>
       ]_vars

\* The direct-request attempts fetch f has begun in its call: those answered,
\* and the one whose delay or request is under way.
AttemptsBegun(f) ==
    Len(sent[f]) + (IF pc[f] \in {"sleeping", "choose_proxy", "request"} THEN 1 ELSE 0)

\* The timestamp get_delay recorded last for the target of fetch f.
LastAsked(f) == History(Target(f))[Len(History(Target(f)))]

\* C24: every direct-request attempt asks the pacing controller first, which
\* adds exactly one timestamp to the history of the target: a fetch that began
\* n attempts has added n entries; and when its request is issued, at least
\* the delay of the attempt has passed since the controller was asked.
C24_PacedBeforeEveryRequest ==
    \A f \in Callers :
       /\ Len(History(Target(f))) = AttemptsBegun(f)
       /\ pc[f] \in {"choose_proxy", "request", "response"} =>
             /\ Positive(delay)
             /\ delay[2] * (now - LastAsked(f)) >= delay[1]

\* C24 witness: a fetch has made six attempts, three of them inside the
\* browser strategy, each with another outcome than content, and returned.
C24_Witness ==
    \E f \in Callers :
       /\ pc[f] = "returned"
       /\ Len(sent[f]) = 6
       /\ Len(History(Target(f))) = 6
       /\ \E k \in 1..6 : Via(f, k) # None
       /\ \E k \in 1..6 : Via(f, k) = None

\* C25: a failed direct-request attempt is followed by a backoff of 2^attempt
\* seconds, whatever the failure was, so that the backoffs of successive
\* failed attempts double (1, 2, 4); a successful attempt is followed by none;
\* and no backoff is waited once the three attempts are spent.
C25_BackoffOnlyBeforeRetry ==
    [][\A f \in Callers :
         /\ (pc[f] = "backoff" /\ pc'[f] # "backoff") =>
               /\ now' - now = Pow(2, attempt[f])
               /\ attempt[f] + 1 < 3
               /\ attempt'[f] = attempt[f] + 1
         /\ (pc[f] = "response" /\ answer[f] = "ok") =>
               (pc'[f] = "returned" /\ now' = now)
    ]_vars

\* --------------------------------------------------- pool: validated subset

Failed(p) == \E k \in 1..Len(failed_proxies) : failed_proxies[k] = p
Occurrences(seq, x) == Cardinality({k \in 1..Len(seq) : seq[k] = x})

\* C26: after validate_all_proxies, however often it ran, working_proxies
\* holds each endpoint at most once, no endpoint is both in working_proxies
\* and in failed_proxies, and both hold loaded endpoints only.
C26_ValidatedSubsetIsASet ==
    /\ \A p \in Refs : Occurrences(working_proxies, p) <= 1
    /\ \A p \in Refs : ~(Validated(p) /\ Failed(p))
    /\ \A k \in 1..Len(working_proxies) : working_proxies[k] \in Refs
    /\ \A k \in 1..Len(failed_proxies) : failed_proxies[k] \in Refs

\* ------------------------------------------------- two fetches on one pool

\* C27: when two fetches on one pool report failures of the same endpoint, in
\* whatever order their steps interleave, no feedback call raises and no
\* fetch ends with an exception of the pool, and an endpoint with three or
\* more failures is in cooldown and outside the validated subset.
C27_ConcurrentFeedbackApplied ==
    /\ ~raised
    /\ \A f \in Fetches : result[f] = "raised" => browser[f] = "no_browser"
    /\ \A p \in Refs :
          proxies[p].failures >= FailureLimit => (HasDeadline(p) /\ ~Validated(p))

\* validate_all_proxies has run exactly once: every loaded endpoint is listed
\* once, in working_proxies or in failed_proxies.
ValidationRanOnce == Len(working_proxies) + Len(failed_proxies) = Len(PROXY_LIST)

\* C28: when validate_all_proxies has run once, every endpoint in the
\* validated subset has at most two failures, whatever get_proxy,
\* mark_proxy_failed and mark_proxy_success calls were made.
C28_ValidatedHaveFewFailures ==
    ValidationRanOnce =>
       \A p \in Refs : Validated(p) => proxies[p].failures < FailureLimit

\* C28 witness: after one validation one endpoint has reached three failures
\* and left the validated subset, while the other, with two failures, is
\* still in it.
C28_Witness ==
    /\ ValidationRanOnce
    /\ \E p, q \in Refs :
          /\ proxies[p].failures >= FailureLimit
          /\ ~Validated(p)
          /\ Failed(p)
          /\ Validated(q)
          /\ proxies[q].failures = FailureLimit - 1

====
